---------------------------- MODULE Spec2Model ----------------------------
(***************************************************************************)
(* SmashMoves: the BTL ranking engine (BTLCalculator, btl-calculator.js)   *)
(* and the pages that feed it and render its output.                       *)
(*                                                                         *)
(* Numbers.  JavaScript numbers are modelled exactly:                      *)
(*   - a win tally is counted in half wins (a win is WinUnit = 2 half      *)
(*     wins, a tie is 1 half win), so wins stay integers;                  *)
(*   - a confidence is an integer number of millionths (ConfScale);        *)
(*   - a score is a fraction [num, den] with den > 0.  All seed scores of  *)
(*     one call share one denominator, and so do all rescaled scores.      *)
(***************************************************************************)
EXTENDS Integers, Sequences, FiniteSets, TLC

VARIABLES
    \* the calculator called directly
    userChoices,   \* the comparison log handed to the calculator
    moveType,      \* the moveType argument of the last calculateBTLScores call
    moveData,      \* the map built by createMoveDataMap in that call
    results,       \* the array returned by that call
    pc,            \* "build": no call yet; "done": results holds a return value
    \* the Firebase database
    fbChoices,     \* users/<userId>/choices, per user
    fbRankings,    \* global_rankings/<moveType>.rankings, <<>> when absent
    \* the comparison pages (ExclusiveComparison), one per user
    cmpType,       \* this.currentMoveType, NoType before the first comparison
    cmpPair,       \* <<currentMove1, currentMove2>>, <<>> while they are null
    calls,         \* the recordChoice calls: where each one is suspended
    recorded,      \* number of recordChoice calls that passed the null check
    \* the tier list page (TierListPage)
    tierType,      \* this.currentMoveType
    tierRankings,  \* this.globalRankings
    tierLoads,     \* move types of the loadGlobalRankings calls in flight
    tierView,      \* what #tierList shows
    \* one BTLCalculator instance and its caller
    calc,          \* the fields of the instance
    firstReturn,   \* per moveType, what the first calculateBTLScores returned
    standings,     \* the caller's array of moves with scores
    op,            \* the method called last, "none" before the first call
    args,          \* its arguments as they were at the call
    ret,           \* its return value
    \* one comparison page with its browser storage
    clock,         \* the time new Date() returns, in milliseconds
    memChoices,    \* this.userChoices of the page
    localStore,    \* localStorage 'userChoices'
    startup,       \* the loadUserChoices call of the constructor
    timers,        \* the setTimeout callbacks of selectMove, not yet run
    tieEnabled,    \* #tieChoice is not disabled
    shownPushes,   \* userChoices.push calls since generateRandomComparison
    recs           \* the recordChoice calls that are suspended at an await

callVars == <<calc, firstReturn, standings, op, args, ret>>
engineVars == <<userChoices, moveType, moveData, results, pc,
                calc, firstReturn, standings, op, args, ret>>
sessionVars == <<clock, memChoices, localStore, startup, timers, tieEnabled,
                 shownPushes, recs>>
dbVars == <<fbChoices, fbRankings>>
cmpVars == <<cmpType, cmpPair, calls, recorded>>
tierVars == <<tierType, tierRankings, tierLoads, tierView>>
pageVars == <<fbChoices, fbRankings, cmpType, cmpPair, calls, recorded,
              tierType, tierRankings, tierLoads, tierView,
              clock, memChoices, localStore, startup, timers, tieEnabled,
              shownPushes, recs>>
vars == <<userChoices, moveType, moveData, results, pc,
          fbChoices, fbRankings, cmpType, cmpPair, calls, recorded,
          tierType, tierRankings, tierLoads, tierView,
          calc, firstReturn, standings, op, args, ret,
          clock, memChoices, localStore, startup, timers, tieEnabled,
          shownPushes, recs>>

-----------------------------------------------------------------------------
(* Bounds and input sets *)

MaxChoices == 3

\* The moves array handed to the calculator (ids of the moves of one type).
Moves == <<"m1", "m2", "m3">>

\* An id that is referenced by choices but is not in the moves array.
UnknownIds == {"u"}

MoveTypes == {"jab", "up b"}

RECURSIVE SeqToSet(_)
SeqToSet(s) == IF s = <<>> THEN {} ELSE {Head(s)} \cup SeqToSet(Tail(s))

KnownIds == SeqToSet(Moves)

PosOf(id) == IF id \in KnownIds
             THEN CHOOSE i \in DOMAIN Moves : Moves[i] = id
             ELSE Len(Moves) + 1

\* The displayed pairs: two different ids, the first one earlier in the
\* catalogue; userChoice says which side won, so both winners occur.
Pairs == {p \in (KnownIds \cup UnknownIds) \X (KnownIds \cup UnknownIds) :
              /\ p[1] \in KnownIds
              /\ PosOf(p[1]) < PosOf(p[2])}

\* userChoice: 1 = move1 wins, 2 = move2 wins, 0 = tie
UserChoiceValues == {0, 1, 2}

Choice(p, uc, t) == [move1 |-> p[1], move2 |-> p[2], userChoice |-> uc, moveType |-> t]

\* Choices of type "jab" over every pair; choices of type "up b" over the
\* pair (m1, m2) (a move can be listed under two types, see getMovesOfType).
ChoiceInputs ==
    {Choice(p, uc, "jab") : p \in Pairs, uc \in UserChoiceValues}
    \cup {Choice(<<Moves[1], Moves[2]>>, uc, "up b") : uc \in UserChoiceValues}

-----------------------------------------------------------------------------
(* Numbers *)

WinUnit == 2
ConfScale == 1000000

\* round(ConfScale / (1 + e^(-0.5 (n - 10)))) for n = 1 .. 26
SigmoidTable ==
    << 10987, 17986, 29312, 47426, 75858, 119203, 182426, 268941, 377541,
       500000, 622459, 731059, 817574, 880797, 924142, 952574, 970688,
       982014, 989013, 993307, 995930, 997527, 998499, 999089, 999447,
       999665 >>

Frac(n, d) == [num |-> n, den |-> d]
Half == Frac(1, 2)
Zero == Frac(0, 1)

IsZero(f) == f.num = 0
IsOne(f) == f.num = f.den
IsHalf(f) == 2 * f.num = f.den
\* a < b; scores of one call share their denominator
FracLess(a, b) == IF a.den = b.den THEN a.num < b.num
                  ELSE a.num * b.den < b.num * a.den
FracEq(a, b) == IF a.den = b.den THEN a.num = b.num
                ELSE a.num * b.den = b.num * a.den

RECURSIVE GCD(_, _)
GCD(a, b) == IF b = 0 THEN a ELSE GCD(b, a % b)
LCM(a, b) == (a * b) \div GCD(a, b)

RECURSIVE SetMax(_)
SetMax(S) == IF Cardinality(S) = 1 THEN CHOOSE x \in S : TRUE
             ELSE LET x == CHOOSE x \in S : TRUE
                      m == SetMax(S \ {x})
                  IN IF x > m THEN x ELSE m

RECURSIVE SetMin(_)
SetMin(S) == IF Cardinality(S) = 1 THEN CHOOSE x \in S : TRUE
             ELSE LET x == CHOOSE x \in S : TRUE
                      m == SetMin(S \ {x})
                  IN IF x < m THEN x ELSE m

RECURSIVE SetLCM(_)
SetLCM(S) == IF S = {} THEN 1
             ELSE LET x == CHOOSE x \in S : TRUE
                  IN LCM(x, SetLCM(S \ {x}))

-----------------------------------------------------------------------------
(* BTLCalculator *)

\* calculateConfidence(totalComparisons), in millionths
calculateConfidence(totalComparisons) ==
    IF totalComparisons = 0 THEN 0 ELSE SigmoidTable[totalComparisons]

\* moveData is an object keyed by move id; it is modelled as the sequence of
\* its entries in insertion order (the order of Object.keys / Object.values).
HasKey(data, id) == \E k \in DOMAIN data : data[k].id = id
KeyIndex(data, id) == CHOOSE k \in DOMAIN data : data[k].id = id
Keys(data) == {data[k].id : k \in DOMAIN data}

NewEntry(id) == [id |-> id, wins |-> 0, total |-> 0, opponents |-> {}]

\* callback of the first forEach of createMoveDataMap: an entry for each
\* id of the choice that is in the moves array and has no entry yet
AddChoiceMoves(moveMap, data, choice) ==
    LET d1 == IF choice.move1 \in moveMap /\ ~HasKey(data, choice.move1)
              THEN Append(data, NewEntry(choice.move1)) ELSE data
    IN IF choice.move2 \in moveMap /\ ~HasKey(d1, choice.move2)
       THEN Append(d1, NewEntry(choice.move2)) ELSE d1

RECURSIVE InitMoveData(_, _, _)
InitMoveData(moveMap, choices, data) ==
    IF choices = <<>> THEN data
    ELSE InitMoveData(moveMap, Tail(choices),
                      AddChoiceMoves(moveMap, data, Head(choices)))

\* a tally that gives a full win to both sides of a tie
WinsAddedTieFull(userChoice, side) ==
    IF userChoice = 1 THEN (IF side = 1 THEN WinUnit ELSE 0)
    ELSE IF userChoice = 2 THEN (IF side = 2 THEN WinUnit ELSE 0)
    ELSE WinUnit

\* a tally that gives the whole win of a tie to move1
WinsAddedTieFirst(userChoice, side) ==
    IF userChoice = 2 THEN (IF side = 2 THEN WinUnit ELSE 0)
    ELSE IF side = 1 THEN WinUnit ELSE 0

\* the wins added to move1 (side 1) and to move2 (side 2) by one counted
\* choice, in half wins
WinsAdded(userChoice, side) ==
    IF userChoice = 1 THEN (IF side = 1 THEN WinUnit ELSE 0)
    ELSE IF userChoice = 2 THEN (IF side = 2 THEN WinUnit ELSE 0)
    ELSE WinUnit \div 2

\* a tally that counts a comparison only against an opponent not met before
BumpOnce(data, id, opponent, wins) ==
    [k \in DOMAIN data |->
        IF data[k].id = id /\ opponent \notin data[k].opponents
        THEN [data[k] EXCEPT !.total = @ + 1,
                             !.opponents = @ \cup {opponent},
                             !.wins = @ + wins]
        ELSE data[k]]

Bump(data, id, opponent, wins) ==
    [k \in DOMAIN data |->
        IF data[k].id = id
        THEN [data[k] EXCEPT !.total = @ + 1,
                             !.opponents = @ \cup {opponent},
                             !.wins = @ + wins]
        ELSE data[k]]

\* a tally pass that counts a choice as soon as one of its ids has an entry
RecordComparisonEither(data, choice) ==
    IF HasKey(data, choice.move1) \/ HasKey(data, choice.move2)
    THEN Bump(Bump(data, choice.move1, choice.move2,
                   WinsAdded(choice.userChoice, 1)),
              choice.move2, choice.move1, WinsAdded(choice.userChoice, 2))
    ELSE data

\* a tally pass that counts a choice for its move1 only
RecordComparisonFirst(data, choice) ==
    IF HasKey(data, choice.move1) /\ HasKey(data, choice.move2)
    THEN Bump(data, choice.move1, choice.move2, WinsAdded(choice.userChoice, 1))
    ELSE data

\* callback of the second forEach of createMoveDataMap: the tally of one choice
RecordComparison(data, choice) ==
    IF HasKey(data, choice.move1) /\ HasKey(data, choice.move2)
    THEN Bump(Bump(data, choice.move1, choice.move2,
                   WinsAdded(choice.userChoice, 1)),
              choice.move2, choice.move1, WinsAdded(choice.userChoice, 2))
    ELSE data

RECURSIVE ProcessChoices(_, _)
ProcessChoices(choices, data) ==
    IF choices = <<>> THEN data
    ELSE ProcessChoices(Tail(choices), RecordComparison(data, Head(choices)))

\* a calculator that keeps filling the moveData of its previous call
KeptMoveData == moveData

\* const moveData = {}: every call starts from a new object
NewMoveData == <<>>

createMoveDataMap(moves, choices) ==
    ProcessChoices(choices, InitMoveData(SeqToSet(moves), choices, NewMoveData))

\* The common denominator of the seed scores of one call:
\* winRate * (0.5 + 0.5 * confidence)
\*    = wins * (ConfScale + conf) / (2 * WinUnit * ConfScale * total)
SeedDen(data) ==
    2 * WinUnit * ConfScale
      * SetLCM({data[k].total : k \in {j \in DOMAIN data : data[j].total > 0}})

SeedNum(entry, den) ==
    IF entry.total > 0
    THEN entry.wins * (ConfScale + calculateConfidence(entry.total))
           * (den \div (2 * WinUnit * ConfScale * entry.total))
    ELSE den \div 2

\* the seed scores[id] before scaling, as a numerator over SeedDen(data)
SeedScores(data) ==
    [k \in DOMAIN data |-> SeedNum(data[k], SeedDen(data))]

\* a scaling that divides by the range without subtracting the minimum
calculateBTLIterativeNoShift(data) ==
    IF Len(data) = 0 THEN <<>>
    ELSE LET scores == SeedScores(data)
             values == {scores[k] : k \in DOMAIN data}
             range == SetMax(values) - SetMin(values)
         IN IF range > 0
            THEN [k \in DOMAIN data |-> Frac(scores[k], range)]
            ELSE [k \in DOMAIN data |-> Frac(scores[k], SeedDen(data))]

\* calculateBTLIterative: scores by position of the id in moveData
calculateBTLIterative(data) ==
    IF Len(data) = 0 THEN <<>>
    ELSE LET scores == SeedScores(data)
             values == {scores[k] : k \in DOMAIN data}
             maxScore == SetMax(values)
             minScore == SetMin(values)
             range == maxScore - minScore
         IN IF range > 0
            THEN [k \in DOMAIN data |-> Frac(scores[k] - minScore, range)]
            ELSE [k \in DOMAIN data |-> Frac(scores[k], SeedDen(data))]

\* a filter that keeps the choices of every type
TypeChoicesAll(choices, type) == choices

\* choices.filter(choice => choice.moveType === moveType)
TypeChoices(choices, type) == SelectSeq(choices, LAMBDA c : c.moveType = type)

\* btlScores[move.id] || 0.5 : a score of 0 is falsy
OrHalf(score) == IF IsZero(score) THEN Half ELSE score

Standing(entry, score) ==
    [id |-> entry.id,
     btlScore |-> OrHalf(score),
     userWins |-> entry.wins,
     userTotal |-> entry.total,
     winRate |-> IF entry.total > 0
                 THEN Frac(entry.wins, WinUnit * entry.total) ELSE Zero,
     confidence |-> calculateConfidence(entry.total)]

BuildResults(data) ==
    LET btlScores == calculateBTLIterative(data)
    IN [k \in DOMAIN data |-> Standing(data[k], btlScores[k])]

calculateBTLScores(moves, choices, type) ==
    LET typeChoices == TypeChoices(choices, type)
    IN IF Len(typeChoices) = 0 THEN <<>>
       ELSE BuildResults(createMoveDataMap(moves, typeChoices))

-----------------------------------------------------------------------------
(* The pages: catalogue and bounds *)

MaxRecorded == 2
MaxTierLoads == 2

Users == {"u1", "u2"}
NoType == "none"

\* getMovesOfType(moveType), flattened to its parts: the ids of the moves the
\* bundle lists under the type
MovesOfType(type) == IF type = "jab" THEN <<"m1", "m2">> ELSE <<"b1", "b2">>

\* the ids of the moves of a standings array handed to the tier functions,
\* by position in that array
StandingIds ==
    <<"s01", "s02", "s03", "s04", "s05", "s06", "s07", "s08", "s09", "s10",
      "s11", "s12">>

\* the order of localeCompare on the characterDisplayName of the moves
NameOrder == <<"b1", "b2", "m1", "m2">> \o StandingIds
NameRank(id) == CHOOSE i \in DOMAIN NameOrder : NameOrder[i] = id

\* getRandomIndices(length, 2) picks two different positions; the pairs are
\* taken with the earlier move on the first card (userChoice 1 and 2 make
\* either card the winner)
RandomPairs(type) ==
    LET moves == MovesOfType(type)
    IN {<<moves[p[1]], moves[p[2]]>> :
           p \in {q \in (DOMAIN moves) \X (DOMAIN moves) : q[1] < q[2]}}

NoChoice == [move1 |-> "none", move2 |-> "none", userChoice |-> 0,
             moveType |-> NoType]
IdleCall == [pc |-> "idle", user |-> "none", data |-> NoChoice,
             rankType |-> NoType, newRankings |-> <<>>]
EndedCall == [pc |-> "end", user |-> "none", data |-> NoChoice,
              rankType |-> NoType, newRankings |-> <<>>]

-----------------------------------------------------------------------------
(* TierListPage *)

TierNames == <<"S", "A", "B", "C", "D", "F">>
TierSet == SeqToSet(TierNames)
NoTiers == [t \in TierSet |-> <<>>]

\* the comparator of the sort of groupGlobalRankingsByTier is negative:
\* higher btlScore first, then characterDisplayName
RankedBefore(a, b) ==
    \/ FracLess(b.btlScore, a.btlScore)
    \/ /\ FracEq(a.btlScore, b.btlScore)
       /\ NameRank(a.id) < NameRank(b.id)

RECURSIVE InsertRanked(_, _)
InsertRanked(sorted, x) ==
    IF sorted = <<>> THEN <<x>>
    ELSE IF RankedBefore(x, Head(sorted)) THEN <<x>> \o sorted
    ELSE <<Head(sorted)>> \o InsertRanked(Tail(sorted), x)

\* [...globalRankings].sort(...) (a stable sort)
RECURSIVE SortRankings(_)
SortRankings(rankings) ==
    IF rankings = <<>> THEN <<>>
    ELSE InsertRanked(SortRankings(SubSeq(rankings, 1, Len(rankings) - 1)),
                      rankings[Len(rankings)])

\* the distinct btlScore values of a sorted array, highest first
RECURSIVE UniqueScores(_)
UniqueScores(sorted) ==
    IF sorted = <<>> THEN <<>>
    ELSE LET rest == UniqueScores(Tail(sorted))
         IN IF rest # <<>> /\ FracEq(Head(rest), Head(sorted).btlScore)
            THEN rest
            ELSE <<Head(sorted).btlScore>> \o rest

\* a tier assignment that has no tier for a seventh distinct score
TierOfScoreNoOverflow(uniqueScores, score) ==
    LET t == CHOOSE t \in DOMAIN uniqueScores : FracEq(uniqueScores[t], score)
    IN IF t <= Len(TierNames) THEN TierNames[t] ELSE "none"

\* the tier of the score group: one tier per distinct score, F on overflow
TierOfScore(uniqueScores, score) ==
    LET t == CHOOSE t \in DOMAIN uniqueScores : FracEq(uniqueScores[t], score)
    IN TierNames[IF t <= Len(TierNames) THEN t ELSE Len(TierNames)]

groupGlobalRankingsByTier(globalRankings) ==
    LET sortedRankings == SortRankings(globalRankings)
        uniqueScores == UniqueScores(sortedRankings)
    IN [t \in TierSet |->
          SelectSeq(sortedRankings,
                    LAMBDA m : TierOfScore(uniqueScores, m.btlScore) = t)]

\* generateTierList: what the page shows for the selected type
generateTierList(type, globalRankings) ==
    IF Len(globalRankings) = 0
    THEN [kind |-> "nodata", type |-> type, tiers |-> NoTiers]
    ELSE [kind |-> "tiers", type |-> type,
          tiers |-> groupGlobalRankingsByTier(globalRankings)]

RemoveAt(s, j) == SubSeq(s, 1, j - 1) \o SubSeq(s, j + 1, Len(s))

-----------------------------------------------------------------------------
(* State of the pages after construction *)

PagesInit ==
    /\ fbChoices = [u \in Users |-> <<>>]
    /\ fbRankings = [t \in MoveTypes |-> <<>>]
    /\ cmpType = [u \in Users |-> NoType]
    /\ cmpPair = [u \in Users |-> <<>>]
    /\ calls = [n \in 1..MaxRecorded |-> IdleCall]
    /\ recorded = 0
    /\ tierType = "jab"
    /\ tierRankings = <<>>
    /\ tierLoads = <<"jab">>
    /\ tierView = [kind |-> "blank", type |-> "jab", tiers |-> NoTiers]

-----------------------------------------------------------------------------
(* ExclusiveComparison *)

\* generateRandomComparison: a random type and two random moves of it
generateRandomComparison(u) ==
    \E type \in MoveTypes : \E pair \in RandomPairs(type) :
        /\ cmpType' = [cmpType EXCEPT ![u] = type]
        /\ cmpPair' = [cmpPair EXCEPT ![u] = pair]

\* loadMoveData resumes after the fetch and shows the first comparison
LoadMoveData(u) ==
    /\ cmpType[u] = NoType
    /\ generateRandomComparison(u)
    /\ UNCHANGED <<calls, recorded>>
    /\ UNCHANGED <<dbVars, tierVars, engineVars, sessionVars>>

\* recordChoice(choice) up to the await of firebaseManager.saveUserChoice
RecordChoice(u, choice) ==
    /\ cmpPair[u] # <<>>
    /\ recorded < MaxRecorded
    /\ recorded' = recorded + 1
    /\ calls' = [calls EXCEPT ![recorded + 1] =
                    [pc |-> "save", user |-> u,
                     data |-> Choice(cmpPair[u], choice, cmpType[u]),
                     rankType |-> NoType, newRankings |-> <<>>]]
    /\ UNCHANGED <<cmpType, cmpPair>>
    /\ UNCHANGED <<dbVars, tierVars, engineVars, sessionVars>>

\* the choice is written under users/<userId>/choices; recordChoice resumes
\* and updateGlobalRankings runs up to its await of loadUserChoices
ChoiceSaved(n) ==
    /\ calls[n].pc = "save"
    /\ fbChoices' = [fbChoices EXCEPT ![calls[n].user] = Append(@, calls[n].data)]
    /\ calls' = [calls EXCEPT ![n].pc = "load"]
    /\ UNCHANGED <<fbRankings, cmpType, cmpPair, recorded>>
    /\ UNCHANGED <<tierVars, engineVars, sessionVars>>

\* updateGlobalRankings resumes with the user's choices and runs up to its
\* await of saveGlobalRankings, or returns; then recordChoice shows the next
\* comparison
ChoicesLoaded(n) ==
    /\ calls[n].pc = "load"
    /\ LET u == calls[n].user
           allUserChoices == fbChoices[u]
           typeChoices == TypeChoices(allUserChoices, cmpType[u])
           newRankings == calculateBTLScores(MovesOfType(cmpType[u]),
                                             typeChoices, cmpType[u])
       IN IF Len(typeChoices) = 0 \/ Len(newRankings) = 0
          THEN /\ calls' = [calls EXCEPT ![n] = EndedCall]
               /\ generateRandomComparison(u)
          ELSE /\ calls' = [calls EXCEPT ![n].pc = "rank",
                                         ![n].rankType = cmpType[u],
                                         ![n].newRankings = newRankings]
               /\ UNCHANGED <<cmpType, cmpPair>>
    /\ UNCHANGED <<dbVars, recorded>>
    /\ UNCHANGED <<tierVars, engineVars, sessionVars>>

\* the rankings are written under global_rankings/<moveType>;
\* updateGlobalRankings returns and recordChoice shows the next comparison
RankingsSaved(n) ==
    /\ calls[n].pc = "rank"
    /\ fbRankings' = [fbRankings EXCEPT ![calls[n].rankType] = calls[n].newRankings]
    /\ calls' = [calls EXCEPT ![n] = EndedCall]
    /\ generateRandomComparison(calls[n].user)
    /\ UNCHANGED <<fbChoices, recorded>>
    /\ UNCHANGED <<tierVars, engineVars, sessionVars>>

-----------------------------------------------------------------------------
(* TierListPage handlers *)

\* the change listener of #moveTypeSelect up to its await; the listeners are
\* attached when the first load has returned
TierSelectType(type) ==
    /\ tierView.kind # "blank"
    /\ Len(tierLoads) < MaxTierLoads
    /\ tierType' = type
    /\ tierLoads' = Append(tierLoads, type)
    /\ UNCHANGED <<tierRankings, tierView>>
    /\ UNCHANGED <<dbVars, cmpVars, engineVars, sessionVars>>

\* a loadGlobalRankings call resumes with the rankings of the type it asked
\* for, and its caller runs generateTierList
TierLoaded(j) ==
    /\ j \in DOMAIN tierLoads
    /\ tierRankings' = fbRankings[tierLoads[j]]
    /\ tierLoads' = RemoveAt(tierLoads, j)
    /\ tierView' = generateTierList(tierType, fbRankings[tierLoads[j]])
    /\ UNCHANGED tierType
    /\ UNCHANGED <<dbVars, cmpVars, engineVars, sessionVars>>

\* the comparison pages of the users and the tier list page, on one database
PagesNext ==
    \/ \E u \in Users : LoadMoveData(u)
    \/ \E u \in Users : \E choice \in UserChoiceValues : RecordChoice(u, choice)
    \/ \E n \in 1..MaxRecorded : ChoiceSaved(n)
    \/ \E n \in 1..MaxRecorded : ChoicesLoaded(n)
    \/ \E n \in 1..MaxRecorded : RankingsSaved(n)
    \/ \E type \in MoveTypes : TierSelectType(type)
    \/ \E j \in 1..MaxTierLoads : TierLoaded(j)

-----------------------------------------------------------------------------
(* BTLCalculator: tiers, prediction *)

\* the comparator (a, b) => b.btlScore - a.btlScore is positive
ScoreBelow(a, b) == FracLess(a.btlScore, b.btlScore)

\* Array.prototype.sort is stable: x, the last element of the input, goes
\* behind every element that does not have a lower score
RECURSIVE InsertByScore(_, _)
InsertByScore(sorted, x) ==
    IF sorted = <<>> THEN <<x>>
    ELSE IF ScoreBelow(Head(sorted), x) THEN <<x>> \o sorted
    ELSE <<Head(sorted)>> \o InsertByScore(Tail(sorted), x)

\* movesWithScores.sort((a, b) => b.btlScore - a.btlScore)
RECURSIVE SortByScore(_)
SortByScore(movesWithScores) ==
    IF movesWithScores = <<>> THEN <<>>
    ELSE InsertByScore(
             SortByScore(SubSeq(movesWithScores, 1, Len(movesWithScores) - 1)),
             movesWithScores[Len(movesWithScores)])

\* a bucket table whose upper limits belong to the higher tier
PercentileTierInclusive(index, totalMoves) ==
    IF 100 * index <= 10 * totalMoves THEN "S"
    ELSE IF 100 * index <= 25 * totalMoves THEN "A"
    ELSE IF 100 * index <= 50 * totalMoves THEN "B"
    ELSE IF 100 * index <= 75 * totalMoves THEN "C"
    ELSE IF 100 * index <= 90 * totalMoves THEN "D"
    ELSE "F"

\* the tier chosen for percentile = (index / totalMoves) * 100
PercentileTier(index, totalMoves) ==
    IF 100 * index < 10 * totalMoves THEN "S"
    ELSE IF 100 * index < 25 * totalMoves THEN "A"
    ELSE IF 100 * index < 50 * totalMoves THEN "B"
    ELSE IF 100 * index < 75 * totalMoves THEN "C"
    ELSE IF 100 * index < 90 * totalMoves THEN "D"
    ELSE "F"

\* the elements pushed to tiers[t] by the forEach, in push order
TierMembers(sortedMoves, t) ==
    LET picked == SelectSeq([i \in 1..Len(sortedMoves) |-> i],
                            LAMBDA i : PercentileTier(i - 1, Len(sortedMoves)) = t)
    IN [j \in 1..Len(picked) |-> sortedMoves[picked[j]]]

groupMovesByTier(movesWithScores) ==
    LET sortedMoves == SortByScore(movesWithScores)
    IN [t \in TierSet |-> TierMembers(sortedMoves, t)]

\* a > b + 0.1
MoreByTenth(a, b) ==
    10 * a.num * b.den > 10 * b.num * a.den + a.den * b.den

\* data.total > 0 ? data.wins / data.total : 0.5
WinRateOrHalf(entry) ==
    IF entry.total > 0 THEN Frac(entry.wins, WinUnit * entry.total) ELSE Half

NeutralPrediction ==
    [move1Score |-> Half, move2Score |-> Half, predictedWinner |-> 0,
     confidence |-> 0]

\* a prediction that names a winner whenever the two scores differ
PredictedWinnerNoBand(move1Score, move2Score) ==
    IF FracLess(move2Score, move1Score) THEN 1
    ELSE IF FracLess(move1Score, move2Score) THEN 2
    ELSE 0

PredictedWinner(move1Score, move2Score) ==
    IF MoreByTenth(move1Score, move2Score) THEN 1
    ELSE IF MoreByTenth(move2Score, move1Score) THEN 2
    ELSE 0

\* a normalisation that swaps the shares of the two moves
ShareOfFirst(rate, other) ==
    IF other.num * rate.den + rate.num * other.den > 0
    THEN Frac(other.num * rate.den,
              other.num * rate.den + rate.num * other.den)
    ELSE Half

\* totalRate > 0 ? rate / totalRate : 0.5, with totalRate = rate + other
Share(rate, other) ==
    IF rate.num * other.den + other.num * rate.den > 0
    THEN Frac(rate.num * other.den,
              rate.num * other.den + other.num * rate.den)
    ELSE Half

calculateBTLPrediction(move1, move2, data) ==
    IF ~HasKey(data, move1) \/ ~HasKey(data, move2) THEN NeutralPrediction
    ELSE LET move1Data == data[KeyIndex(data, move1)]
             move2Data == data[KeyIndex(data, move2)]
             move1WinRate == WinRateOrHalf(move1Data)
             move2WinRate == WinRateOrHalf(move2Data)
             move1Score == Share(move1WinRate, move2WinRate)
             move2Score == Share(move2WinRate, move1WinRate)
         IN [move1Score |-> move1Score,
             move2Score |-> move2Score,
             predictedWinner |-> PredictedWinner(move1Score, move2Score),
             confidence |-> calculateConfidence(move1Data.total
                                                + move2Data.total)]

-----------------------------------------------------------------------------
(* ExclusiveComparison: one page with its browser storage *)

MaxSessionChoices == 2
MaxClock == 4
MaxPageLoads == 2

\* the user of the browser the page runs in
SessionUser == "u1"

\* move.id of the elements getMovesOfType returns: they are the groups
\* {character, characterDisplayName, moveType, parts, currentPartIndex},
\* which have no id
MoveGroupIds(type) == [i \in DOMAIN MovesOfType(type) |-> "undefined"]

\* ExclusiveComparison.calculateBTLPrediction(): the calculator's prediction
\* for the displayed moves, from a map built over the groups
PagePrediction(move1, move2, type, choices) ==
    calculateBTLPrediction(move1, move2,
        createMoveDataMap(MoveGroupIds(type), TypeChoices(choices, type)))

\* choiceData of recordChoice
ChoiceData(pair, choice, type, timestamp, prediction) ==
    [move1 |-> pair[1], move2 |-> pair[2], userChoice |-> choice,
     moveType |-> type, timestamp |-> timestamp, btlPrediction |-> prediction]

Timestamps(choices) == {choices[k].timestamp : k \in DOMAIN choices}

\* merged.sort((a, b) => new Date(a.timestamp) - new Date(b.timestamp)):
\* x, the last element, goes behind every element that is not later
RECURSIVE InsertByTimestamp(_, _)
InsertByTimestamp(sorted, x) ==
    IF sorted = <<>> THEN <<x>>
    ELSE IF x.timestamp < Head(sorted).timestamp THEN <<x>> \o sorted
    ELSE <<Head(sorted)>> \o InsertByTimestamp(Tail(sorted), x)

RECURSIVE SortByTimestamp(_)
SortByTimestamp(merged) ==
    IF merged = <<>> THEN <<>>
    ELSE InsertByTimestamp(SortByTimestamp(SubSeq(merged, 1, Len(merged) - 1)),
                           merged[Len(merged)])

mergeChoices(localChoices, firebaseChoices) ==
    LET localIds == Timestamps(localChoices)
        merged == localChoices
                    \o SelectSeq(firebaseChoices,
                                 LAMBDA c : c.timestamp \notin localIds)
    IN SortByTimestamp(merged)

\* new ExclusiveComparison(): loadUserChoices has read localStorage and
\* waits for firebaseManager.loadUserChoices()
StartupAwait(localChoices, loads, sent) ==
    [pc |-> "await", localChoices |-> localChoices, firebaseChoices |-> <<>>,
     loads |-> loads, sent |-> sent]

SessionInit ==
    /\ clock = 0
    /\ memChoices = <<>>
    /\ localStore = <<>>
    /\ startup = StartupAwait(<<>>, 1, 0)
    /\ timers = <<>>
    /\ tieEnabled = TRUE
    /\ shownPushes = 0
    /\ recs = <<>>

-----------------------------------------------------------------------------
(* The calculator driven over every log of at most MaxChoices choices *)

NotCalled == [called |-> FALSE, value |-> <<>>, repeated |-> FALSE]

EngineInit ==
    /\ userChoices = <<>>
    /\ moveType = "jab"
    /\ moveData = <<>>
    /\ results = <<>>
    /\ pc = "build"

\* new BTLCalculator(), and a caller that has not called it yet
CalculatorInit ==
    /\ calc = [iterations |-> 50, convergenceThreshold |-> Frac(1, 1000000),
               minComparisons |-> 1]
    /\ firstReturn = [t \in MoveTypes |-> NotCalled]
    /\ standings = <<>>
    /\ op = "none"
    /\ args = <<>>
    /\ ret = <<>>

Init == EngineInit /\ CalculatorInit /\ PagesInit /\ SessionInit

\* the caller appends one more comparison to the log it will pass
AppendChoice(choice) ==
    /\ pc = "build"
    /\ Len(userChoices) < MaxChoices
    /\ userChoices' = Append(userChoices, choice)
    /\ UNCHANGED <<moveType, moveData, results, pc>>
    /\ UNCHANGED <<pageVars, callVars>>

\* results = btlCalculator.calculateBTLScores(Moves, userChoices, type)
ComputeStandings(type) ==
    /\ pc = "build"
    /\ moveType' = type
    /\ moveData' = createMoveDataMap(Moves, TypeChoices(userChoices, type))
    /\ results' = calculateBTLScores(Moves, userChoices, type)
    /\ pc' = "done"
    /\ UNCHANGED userChoices
    /\ UNCHANGED <<pageVars, callVars>>

Next ==
    \/ \E choice \in ChoiceInputs : AppendChoice(choice)
    \/ \E type \in MoveTypes : ComputeStandings(type)

Spec == Init /\ [][Next]_vars

PagesSpec == Init /\ [][PagesNext]_vars

-----------------------------------------------------------------------------
(* One BTLCalculator instance called by its caller: inputs *)

MaxCallChoices == 2
MaxStandings == 10
MaxTally == 3
MaxComparisons == 24

\* the logs of at most MaxCallChoices choices
CallLogs ==
    UNION {[1..k -> ChoiceInputs] : k \in 0..MaxCallChoices}

\* btlScore values of the standings handed to the tier functions, highest
\* first
ScoreLadder ==
    <<Frac(1, 1), Frac(1, 2), Frac(1, 3), Frac(1, 4), Frac(1, 5), Frac(1, 6),
      Frac(1, 7), Frac(1, 8)>>

CommonScores == {ScoreLadder[1], ScoreLadder[2]}

\* the array holds the first scores of the ladder, one each and in order
IsLadder(list) ==
    /\ Len(list) <= Len(ScoreLadder)
    /\ \A i \in DOMAIN list : list[i].btlScore = ScoreLadder[i]

\* the scores the caller may append: one of the two common scores (ties),
\* or the next lower score of the ladder while all scores are different
NextScores(list) ==
    CommonScores
      \cup (IF IsLadder(list) /\ Len(list) < Len(ScoreLadder)
            THEN {ScoreLadder[Len(list) + 1]} ELSE {})

\* wins (in half wins) and total of a moveData entry
EdgeTallies == {[wins |-> 11, total |-> 9]}

Tallies ==
    {[wins |-> p[1], total |-> p[2]] :
        p \in {q \in (0..(WinUnit * MaxTally)) \X (0..MaxTally) :
                  q[1] <= WinUnit * q[2]}}
      \cup EdgeTallies

\* the moveData entry of an id: none, or one with some tallies
EntryChoices(id) ==
    {<<>>} \cup {<<[id |-> id, wins |-> x.wins, total |-> x.total,
                   opponents |-> {}]>> : x \in Tallies}

-----------------------------------------------------------------------------
(* One BTLCalculator instance called by its caller: calls *)

\* the caller puts one more move with a score into its array
AddStanding(score) ==
    /\ op = "none"
    /\ Len(standings) < MaxStandings
    /\ score \in NextScores(standings)
    /\ standings' = Append(standings,
                           [id |-> StandingIds[Len(standings) + 1],
                            btlScore |-> score])
    /\ UNCHANGED <<calc, firstReturn, op, args, ret>>
    /\ UNCHANGED <<userChoices, moveType, moveData, results, pc, pageVars>>

\* ret = btlCalculator.groupMovesByTier(standings); the sort is in place
CallGroupMovesByTier ==
    /\ op' = "groupMovesByTier"
    /\ args' = standings
    /\ ret' = groupMovesByTier(standings)
    /\ standings' = SortByScore(standings)
    /\ UNCHANGED <<calc, firstReturn>>
    /\ UNCHANGED <<userChoices, moveType, moveData, results, pc, pageVars>>

\* ret = tierListPage.groupGlobalRankingsByTier(standings); sorts a copy
CallGroupGlobalRankingsByTier ==
    /\ op' = "groupGlobalRankingsByTier"
    /\ args' = standings
    /\ ret' = groupGlobalRankingsByTier(standings)
    /\ UNCHANGED <<calc, firstReturn, standings>>
    /\ UNCHANGED <<userChoices, moveType, moveData, results, pc, pageVars>>

\* standings = btlCalculator.calculateBTLScores(Moves, userChoices, type)
CallCalculateBTLScores(type) ==
    /\ moveType' = type
    /\ moveData' = createMoveDataMap(Moves, TypeChoices(userChoices, type))
    /\ results' = calculateBTLScores(Moves, userChoices, type)
    /\ pc' = "done"
    /\ op' = "calculateBTLScores"
    /\ args' = [moveType |-> type]
    /\ ret' = results'
    /\ standings' = results'
    /\ firstReturn' = IF firstReturn[type].called
                      THEN [firstReturn EXCEPT ![type].repeated = TRUE]
                      ELSE [firstReturn EXCEPT
                               ![type] = [called |-> TRUE, value |-> results',
                                          repeated |-> FALSE]]
    /\ UNCHANGED <<userChoices, calc, pageVars>>

\* ret = btlCalculator.calculateBTLPrediction(m1, m2, moveData)
CallCalculateBTLPrediction(entry1, entry2) ==
    /\ op' = "calculateBTLPrediction"
    /\ args' = [move1 |-> Moves[1], move2 |-> Moves[2],
                moveData |-> entry1 \o entry2]
    /\ ret' = calculateBTLPrediction(Moves[1], Moves[2], entry1 \o entry2)
    /\ UNCHANGED <<calc, firstReturn, standings>>
    /\ UNCHANGED <<userChoices, moveType, moveData, results, pc, pageVars>>

\* ret = btlCalculator.calculateConfidence(n)
CallCalculateConfidence(n) ==
    /\ op' = "calculateConfidence"
    /\ args' = n
    /\ ret' = calculateConfidence(n)
    /\ UNCHANGED <<calc, firstReturn, standings>>
    /\ UNCHANGED <<userChoices, moveType, moveData, results, pc, pageVars>>

\* the tier functions applied to the arrays a caller can build
TierNext ==
    \/ \E score \in CommonScores \cup SeqToSet(ScoreLadder) : AddStanding(score)
    \/ CallGroupMovesByTier
    \/ CallGroupGlobalRankingsByTier

TierSpec == Init /\ [][TierNext]_vars

\* calculateBTLPrediction and calculateConfidence applied to their inputs
HelperNext ==
    \/ \E entry1 \in EntryChoices(Moves[1]) :
          \E entry2 \in EntryChoices(Moves[2]) :
             CallCalculateBTLPrediction(entry1, entry2)
    \/ \E n \in 0..MaxComparisons : CallCalculateConfidence(n)

HelperSpec == Init /\ [][HelperNext]_vars

\* a caller that holds one log and calls calculateBTLScores, for any type and
\* any number of times, and groupMovesByTier on what it got back
CallsInit ==
    /\ userChoices \in CallLogs
    /\ moveType = "jab"
    /\ moveData = <<>>
    /\ results = <<>>
    /\ pc = "build"
    /\ CalculatorInit
    /\ PagesInit
    /\ SessionInit

CallsNext ==
    \/ \E type \in MoveTypes : CallCalculateBTLScores(type)
    \/ CallGroupMovesByTier

CallsSpec == CallsInit /\ [][CallsNext]_vars

-----------------------------------------------------------------------------
(* ExclusiveComparison: one page with its browser storage, handlers *)

\* generateRandomComparison with displayComparison and enableCardSelection
ShowNextComparison ==
    /\ generateRandomComparison(SessionUser)
    /\ tieEnabled' = TRUE
    /\ shownPushes' = 0

\* loadMoveData resumes after the fetch and shows the first comparison
MoveDataLoaded ==
    /\ cmpType[SessionUser] = NoType
    /\ ShowNextComparison
    /\ UNCHANGED <<clock, memChoices, localStore, startup, timers, recs>>
    /\ UNCHANGED <<dbVars, calls, recorded, tierVars, engineVars>>

\* a millisecond passes
Tick ==
    /\ clock < MaxClock
    /\ clock' = clock + 1
    /\ UNCHANGED <<memChoices, localStore, startup, timers, tieEnabled,
                   shownPushes, recs>>
    /\ UNCHANGED <<dbVars, cmpVars, tierVars, engineVars>>

\* recordChoice(choice) up to its first await that waits for Firebase:
\* the push to this.userChoices, and of saveUserChoice the localStorage
\* write and the call of firebaseManager.saveUserChoice
recordChoice(choice) ==
    /\ cmpPair[SessionUser] # <<>>
    /\ LET pair == cmpPair[SessionUser]
           type == cmpType[SessionUser]
           choiceData == ChoiceData(pair, choice, type, clock,
                             PagePrediction(pair[1], pair[2], type, memChoices))
       IN /\ memChoices' = Append(memChoices, choiceData)
          /\ localStore' = Append(localStore, choiceData)
          /\ recs' = Append(recs, [pc |-> "save", data |-> choiceData,
                                   rankType |-> NoType, newRankings |-> <<>>,
                                   sent |-> clock])
          /\ op' = "recordChoice"
          /\ args' = [userChoices |-> memChoices, move1 |-> pair[1],
                      move2 |-> pair[2], moveType |-> type]
          /\ ret' = choiceData
    /\ recorded' = recorded + 1
    /\ shownPushes' = shownPushes + 1
    /\ UNCHANGED <<clock, startup, cmpType, cmpPair, calls>>
    /\ UNCHANGED <<dbVars, tierVars, userChoices, moveType, moveData, results,
                   pc, calc, firstReturn, standings>>

\* a click on move card 1 or 2: selectMove(moveNumber)
SelectMove(moveNumber) ==
    /\ cmpPair[SessionUser] # <<>>
    /\ recorded + Len(timers) < MaxSessionChoices
    /\ tieEnabled' = FALSE
    /\ timers' = Append(timers, [moveNumber |-> moveNumber, set |-> clock])
    /\ UNCHANGED <<clock, memChoices, localStore, startup, shownPushes, recs>>
    /\ UNCHANGED <<dbVars, cmpVars, tierVars, engineVars>>

\* the callback of the oldest setTimeout of selectMove runs, 300 ms after
\* the click or later
TimerFires ==
    /\ timers # <<>>
    /\ clock > Head(timers).set
    /\ recordChoice(Head(timers).moveNumber)
    /\ timers' = Tail(timers)
    /\ UNCHANGED tieEnabled

\* a click on #tieChoice: the listener of initializeEventListeners
ClickTie ==
    /\ tieEnabled
    /\ recorded + Len(timers) < MaxSessionChoices
    /\ recordChoice(0)
    /\ UNCHANGED <<timers, tieEnabled>>

\* firebaseManager.saveUserChoice is done, later than it was called (as
\* every answer of the database): the choice is stored under
\* users/<userId>/choices, recordChoice resumes and updateGlobalRankings
\* runs up to its await of loadUserChoices
SaveAcknowledged(k) ==
    /\ k \in DOMAIN recs
    /\ recs[k].pc = "save"
    /\ clock > recs[k].sent
    /\ fbChoices' = [fbChoices EXCEPT ![SessionUser] = Append(@, recs[k].data)]
    /\ recs' = [recs EXCEPT ![k].pc = "load", ![k].sent = clock]
    /\ UNCHANGED <<clock, memChoices, localStore, startup, timers, tieEnabled,
                   shownPushes>>
    /\ UNCHANGED <<fbRankings, cmpVars, tierVars, engineVars>>

\* updateGlobalRankings resumes with the user's choices and runs up to its
\* await of saveGlobalRankings, or returns; then recordChoice shows the next
\* comparison
RankingChoicesLoaded(k) ==
    /\ k \in DOMAIN recs
    /\ recs[k].pc = "load"
    /\ clock > recs[k].sent
    /\ LET type == cmpType[SessionUser]
           typeChoices == TypeChoices(fbChoices[SessionUser], type)
           newRankings == calculateBTLScores(MovesOfType(type), typeChoices, type)
       IN IF Len(typeChoices) = 0 \/ Len(newRankings) = 0
          THEN /\ recs' = RemoveAt(recs, k)
               /\ ShowNextComparison
          ELSE /\ recs' = [recs EXCEPT ![k].pc = "rank",
                                       ![k].rankType = type,
                                       ![k].newRankings = newRankings,
                                       ![k].sent = clock]
               /\ UNCHANGED <<cmpType, cmpPair, tieEnabled, shownPushes>>
    /\ UNCHANGED <<clock, memChoices, localStore, startup, timers>>
    /\ UNCHANGED <<dbVars, calls, recorded, tierVars, engineVars>>

\* the rankings are written under global_rankings/<moveType>;
\* updateGlobalRankings returns and recordChoice shows the next comparison
GlobalRankingsSaved(k) ==
    /\ k \in DOMAIN recs
    /\ recs[k].pc = "rank"
    /\ clock > recs[k].sent
    /\ fbRankings' = [fbRankings EXCEPT ![recs[k].rankType] = recs[k].newRankings]
    /\ recs' = RemoveAt(recs, k)
    /\ ShowNextComparison
    /\ UNCHANGED <<clock, memChoices, localStore, startup, timers>>
    /\ UNCHANGED <<fbChoices, calls, recorded, tierVars, engineVars>>

\* the database reads users/<userId>/choices for the loadUserChoices call
\* of the constructor
StartupServed ==
    /\ startup.pc = "await"
    /\ startup' = [startup EXCEPT !.pc = "served",
                                  !.firebaseChoices = fbChoices[SessionUser]]
    /\ UNCHANGED <<clock, memChoices, localStore, timers, tieEnabled,
                   shownPushes, recs>>
    /\ UNCHANGED <<dbVars, cmpVars, tierVars, engineVars>>

\* the answer arrives, later than the request was sent; loadUserChoices
\* resumes: merge, this.userChoices and localStorage are set to the merged
\* list
StartupMerged ==
    /\ startup.pc = "served"
    /\ clock > startup.sent
    /\ LET mergedChoices == mergeChoices(startup.localChoices,
                                         startup.firebaseChoices)
       IN /\ memChoices' = mergedChoices
          /\ localStore' = mergedChoices
          /\ op' = "mergeChoices"
          /\ args' = [localChoices |-> startup.localChoices,
                      firebaseChoices |-> startup.firebaseChoices]
          /\ ret' = mergedChoices
    /\ startup' = [startup EXCEPT !.pc = "done"]
    /\ UNCHANGED <<clock, timers, tieEnabled, shownPushes, recs>>
    /\ UNCHANGED <<dbVars, cmpVars, tierVars, userChoices, moveType, moveData,
                   results, pc, calc, firstReturn, standings>>

\* the user loads the page again, when the writes of the page have reached
\* the database and no timer is set; the load takes more than a
\* millisecond.  The constructor runs, loadUserChoices reads localStorage
\* and waits for Firebase; what the old page waited for is dropped
Reload ==
    /\ startup.pc = "done"
    /\ startup.loads < MaxPageLoads
    /\ clock < MaxClock
    /\ clock' = clock + 1
    /\ \A k \in DOMAIN recs : recs[k].pc # "save"
    /\ timers = <<>>
    /\ recs' = <<>>
    /\ memChoices' = localStore
    /\ startup' = StartupAwait(localStore, startup.loads + 1, clock + 1)
    /\ cmpType' = [cmpType EXCEPT ![SessionUser] = NoType]
    /\ cmpPair' = [cmpPair EXCEPT ![SessionUser] = <<>>]
    /\ tieEnabled' = TRUE
    /\ shownPushes' = 0
    /\ UNCHANGED <<localStore, timers, calls, recorded>>
    /\ UNCHANGED <<dbVars, tierVars, engineVars>>

SessionNext ==
    \/ MoveDataLoaded
    \/ Tick
    \/ \E moveNumber \in {1, 2} : SelectMove(moveNumber)
    \/ TimerFires
    \/ ClickTie
    \/ \E k \in 1..MaxSessionChoices : SaveAcknowledged(k)
    \/ \E k \in 1..MaxSessionChoices : RankingChoicesLoaded(k)
    \/ \E k \in 1..MaxSessionChoices : GlobalRankingsSaved(k)
    \/ StartupServed
    \/ StartupMerged
    \/ Reload

SessionSpec == Init /\ [][SessionNext]_vars

-----------------------------------------------------------------------------
(* Vocabulary of the properties *)

\* the choices of one type, selected independently of the calculator
InCategory(choices, type) == SelectSeq(choices, LAMBDA c : c.moveType = type)

\* the in-category choices of the last call, and all of them but the last
CallChoices == InCategory(userChoices, moveType)
CallChoicesButLast == SubSeq(CallChoices, 1, Len(CallChoices) - 1)
LastChoice == CallChoices[Len(CallChoices)]

BothKnown(choice) == choice.move1 \in KnownIds /\ choice.move2 \in KnownIds

\* the tallies of an id in a move data map, 0 when it has no entry
TotalOf(data, id) == IF HasKey(data, id) THEN data[KeyIndex(data, id)].total ELSE 0
WinsOf(data, id) == IF HasKey(data, id) THEN data[KeyIndex(data, id)].wins ELSE 0

Reduced(f) == LET g == GCD(f.num, f.den) IN Frac(f.num \div g, f.den \div g)
SameValue(a, b) == Reduced(a) = Reduced(b)

StandingsOf(id) == {k \in DOMAIN results : results[k].id = id}

IsNeutral(standing) ==
    /\ IsHalf(standing.btlScore)
    /\ standing.userWins = 0
    /\ standing.userTotal = 0
    /\ standing.confidence = 0

-----------------------------------------------------------------------------
(* Properties *)

\* C1: calculateBTLScores returns exactly one standing for every move of the
\* moves array, also for moves that occur in no choice.
C1_OneStandingPerItem ==
    pc = "done" =>
        \A i \in DOMAIN Moves : Cardinality(StandingsOf(Moves[i])) = 1

\* C2: when no choice of the log has the requested type, every move of the
\* (non-empty) moves array is returned with score 0.5, wins 0, total 0 and
\* confidence 0.
C2_EmptyLogNeutral ==
    (pc = "done" /\ CallChoices = <<>>) =>
        \A i \in DOMAIN Moves :
            \E k \in StandingsOf(Moves[i]) : IsNeutral(results[k])

\* no comparison of the type is stored for any user or is being recorded
NoEvents(type) ==
    /\ \A u \in Users : InCategory(fbChoices[u], type) = <<>>
    /\ \A n \in DOMAIN calls : calls[n].data.moveType # type

InTier(view, id) ==
    \E t \in TierSet : \E k \in DOMAIN view.tiers[t] : view.tiers[t][k].id = id

\* C3: while a move type has no comparison at all, none of its moves is in
\* a tier S-F: the calculator returns no standings for it, no ranking of it
\* is stored or about to be stored under global_rankings, the tier list
\* page holds and shows no standing of its moves, and once its loads have
\* returned the tier list page of that type shows the no-data message.
C3_InsufficientData ==
    \A type \in MoveTypes :
        NoEvents(type) =>
            /\ \A u \in Users :
                  calculateBTLScores(MovesOfType(type), fbChoices[u], type) = <<>>
            /\ fbRankings[type] = <<>>
            /\ \A n \in DOMAIN calls : calls[n].rankType # type
            /\ \A i \in DOMAIN MovesOfType(type) :
                  /\ ~InTier(tierView, MovesOfType(type)[i])
                  /\ \A k \in DOMAIN tierRankings :
                        tierRankings[k].id # MovesOfType(type)[i]
            /\ (tierType = type /\ tierLoads = <<>>) => tierView.kind = "nodata"

\* C4: a returned move with zero counted comparisons has score exactly 0.5,
\* wins 0, total 0 and confidence 0, and the scores of the other moves are
\* the ones computed without it (it takes no part in the min/max rescale).
C4_NeutralPrior ==
    pc = "done" =>
        LET scored == SelectSeq(moveData, LAMBDA e : e.total > 0)
            alone == BuildResults(scored)
        IN \A k \in DOMAIN results :
              IF results[k].userTotal = 0
              THEN IsNeutral(results[k])
              ELSE \E j \in DOMAIN alone :
                      /\ alone[j].id = results[k].id
                      /\ SameValue(alone[j].btlScore, results[k].btlScore)

\* C5: every returned btlScore lies in [0,1] and every returned confidence
\* lies in [0,1].
C5_BoundedOutput ==
    pc = "done" =>
        \A k \in DOMAIN results :
            /\ results[k].btlScore.den > 0
            /\ 0 <= results[k].btlScore.num
            /\ results[k].btlScore.num <= results[k].btlScore.den
            /\ 0 <= results[k].confidence
            /\ results[k].confidence <= ConfScale

\* the rescale of calculateBTLIterative has produced a score strictly inside
\* (0,1) next to a score of exactly 1
C5_Witness ==
    /\ pc = "done"
    /\ \E k \in DOMAIN results : IsOne(results[k].btlScore)
    /\ \E k \in DOMAIN results :
          /\ results[k].userTotal > 0
          /\ ~IsHalf(results[k].btlScore)
          /\ 0 < results[k].btlScore.num
          /\ results[k].btlScore.num < results[k].btlScore.den

\* C6: a choice of the requested type whose two ids are both in the moves
\* array adds exactly 1 to the total of both, and one win to the winner only,
\* or half a win to both on a tie; the tallies of every other move stay.
C6_TallyPass ==
    (pc = "done" /\ CallChoices # <<>> /\ BothKnown(LastChoice)) =>
        LET before == createMoveDataMap(Moves, CallChoicesButLast)
            c == LastChoice
            w1 == IF c.userChoice = 1 THEN WinUnit
                  ELSE IF c.userChoice = 2 THEN 0 ELSE 1
            w2 == IF c.userChoice = 2 THEN WinUnit
                  ELSE IF c.userChoice = 1 THEN 0 ELSE 1
        IN /\ TotalOf(moveData, c.move1) = TotalOf(before, c.move1) + 1
           /\ TotalOf(moveData, c.move2) = TotalOf(before, c.move2) + 1
           /\ WinsOf(moveData, c.move1) = WinsOf(before, c.move1) + w1
           /\ WinsOf(moveData, c.move2) = WinsOf(before, c.move2) + w2
           /\ \A id \in KnownIds \ {c.move1, c.move2} :
                 /\ TotalOf(moveData, id) = TotalOf(before, id)
                 /\ WinsOf(moveData, id) = WinsOf(before, id)

\* a log whose last counted choice is a tie, after an earlier win of move1
C6_Witness ==
    /\ pc = "done"
    /\ Len(CallChoices) >= 2
    /\ BothKnown(LastChoice)
    /\ LastChoice.userChoice = 0
    /\ WinsOf(moveData, LastChoice.move1) = WinUnit + 1
    /\ TotalOf(moveData, LastChoice.move1) = 2
    /\ \E id \in KnownIds \ {LastChoice.move1, LastChoice.move2} :
          TotalOf(moveData, id) > 0

\* C7: a choice of the requested type with an id outside the moves array
\* changes neither the wins nor the total of any move, and no standing is
\* returned for an id outside the moves array.
C7_UnknownIdSkipped ==
    pc = "done" =>
        /\ \A k \in DOMAIN results : results[k].id \in KnownIds
        /\ \A k \in DOMAIN moveData : moveData[k].id \in KnownIds
        /\ (CallChoices # <<>> /\ ~BothKnown(LastChoice)) =>
              LET before == createMoveDataMap(Moves, CallChoicesButLast)
              IN \A id \in KnownIds :
                    /\ TotalOf(moveData, id) = TotalOf(before, id)
                    /\ WinsOf(moveData, id) = WinsOf(before, id)

\* the last choice pairs an unknown id with a move that has counted
\* comparisons from earlier choices
C7_Witness ==
    /\ pc = "done"
    /\ Len(CallChoices) >= 2
    /\ ~BothKnown(LastChoice)
    /\ TotalOf(moveData, LastChoice.move1) > 0
    /\ results # <<>>

\* C8: the standings for a log with choices that reference unknown ids are
\* the standings for the same log without those choices.
C8_UnknownIdsExcluded ==
    pc = "done" =>
        results = calculateBTLScores(Moves, SelectSeq(userChoices, BothKnown),
                                     moveType)

\* C9: the standings for a log are the standings for the log restricted to
\* the requested type: choices of other types change nothing.
C9_CategoryFiltering ==
    pc = "done" =>
        /\ results = calculateBTLScores(Moves, InCategory(userChoices, moveType),
                                        moveType)
        /\ moveData = createMoveDataMap(Moves, InCategory(userChoices, moveType))

\* the log mixes counted choices of the requested type with choices of
\* another type over the same moves
C9_Witness ==
    /\ pc = "done"
    /\ results # <<>>
    /\ \E n \in DOMAIN userChoices :
          /\ userChoices[n].moveType # moveType
          /\ BothKnown(userChoices[n])
    /\ \E n \in DOMAIN userChoices :
          /\ userChoices[n].moveType = moveType
          /\ BothKnown(userChoices[n])

\* C10: when the seeds of the moves with total > 0 are not all equal, every
\* such move is returned with (seed - min) / (max - min): 1 for the largest
\* seed, 0 for the smallest.
C10_MinMaxRescale ==
    (pc = "done" /\ results # <<>>) =>
        LET seeds == SeedScores(moveData)
            scored == {k \in DOMAIN moveData : moveData[k].total > 0}
            values == {seeds[k] : k \in scored}
        IN (scored # {} /\ SetMax(values) > SetMin(values)) =>
              \A k \in scored :
                  SameValue(results[k].btlScore,
                            Frac(seeds[k] - SetMin(values),
                                 SetMax(values) - SetMin(values)))

\* C11: when all moves with total > 0 have the same seed, nothing is
\* rescaled: each of them is returned with that seed as its btlScore.
C11_DegenerateRange ==
    (pc = "done" /\ results # <<>>) =>
        LET seeds == SeedScores(moveData)
            scored == {k \in DOMAIN moveData : moveData[k].total > 0}
            values == {seeds[k] : k \in scored}
        IN (scored # {} /\ SetMax(values) = SetMin(values)) =>
              \A k \in scored :
                  SameValue(results[k].btlScore,
                            Frac(seeds[k], SeedDen(moveData)))

\* the choices of the last call in which the id takes part
ChoicesWith(id) ==
    SelectSeq(CallChoices, LAMBDA c : c.move1 = id \/ c.move2 = id)

\* the only choice of the last call with a or b is one tie between a and b
OnlyTie(a, b) ==
    /\ ChoicesWith(a) = ChoicesWith(b)
    /\ Len(ChoicesWith(a)) = 1
    /\ ChoicesWith(a)[1].userChoice = 0

\* C12: two moves whose only choice is one tie between them are both
\* returned with half a win, total 1 and the same btlScore.
C12_TieSymmetry ==
    pc = "done" =>
        \A a \in KnownIds : \A b \in KnownIds \ {a} :
            OnlyTie(a, b) =>
                /\ Cardinality(StandingsOf(a)) = 1
                /\ Cardinality(StandingsOf(b)) = 1
                /\ \A i \in StandingsOf(a) : \A j \in StandingsOf(b) :
                      /\ results[i].userWins = WinUnit \div 2
                      /\ results[j].userWins = WinUnit \div 2
                      /\ results[i].userTotal = 1
                      /\ results[j].userTotal = 1
                      /\ SameValue(results[i].btlScore, results[j].btlScore)

\* m1 and m2 have one tie and nothing else, next to another choice of the
\* same type in the log
C12_Witness ==
    /\ pc = "done"
    /\ OnlyTie("m1", "m2")
    /\ Len(CallChoices) >= 2
    /\ \E k \in DOMAIN results : results[k].id = "m1" /\ results[k].userTotal = 1

Logistic(n) == IF n = 0 THEN 6693 ELSE SigmoidTable[n]

\* C14: calculateConfidence(n) is the logistic 1 / (1 + e^(-0.5 (n - 10)))
\* for every n >= 0: 0.5 at n = 10 and 1 / (1 + e^5) at n = 0.
C14_ConfidenceLogistic ==
    op = "calculateConfidence" =>
        /\ ret = Logistic(args)
        /\ (args = 10 => 2 * ret = ConfScale)

\* the entry of a move in the moveData argument of the last prediction call
ArgEntry(id) == args.moveData[KeyIndex(args.moveData, id)]

\* both moves of the last prediction call have an entry with total > 0
BothCompared ==
    /\ op = "calculateBTLPrediction"
    /\ HasKey(args.moveData, args.move1)
    /\ HasKey(args.moveData, args.move2)
    /\ ArgEntry(args.move1).total > 0
    /\ ArgEntry(args.move2).total > 0

ScoreGapNum ==
    ret.move1Score.num * ret.move2Score.den
      - ret.move2Score.num * ret.move1Score.den

ScoreGapDen == ret.move1Score.den * ret.move2Score.den

TierCall == op \in {"groupMovesByTier", "groupGlobalRankingsByTier"}

\* the places of the returned tiers object: tier name and index
TierSlots == UNION {{<<t, k>> : k \in DOMAIN ret[t]} : t \in TierSet}

\* C17: groupMovesByTier and groupGlobalRankingsByTier return the six
\* buckets S, A, B, C, D, F, and every element of the input array is in
\* exactly one place of them; the buckets hold nothing else.
C17_TierPartition ==
    TierCall =>
        /\ DOMAIN ret = TierSet
        /\ Cardinality(TierSlots) = Len(args)
        /\ \A i \in DOMAIN args :
              Cardinality({p \in TierSlots : ret[p[1]][p[2]] = args[i]}) = 1

\* the tier list page was given more distinct scores than there are tiers
C17_Witness ==
    /\ op = "groupGlobalRankingsByTier"
    /\ Len(args) >= 8
    /\ Len(ret["F"]) >= 3
    /\ ret["F"][1].btlScore # ret["F"][2].btlScore
    /\ \A t \in TierSet : Len(ret[t]) >= 1

\* the returned buckets read from S down to F
RankedList ==
    ret["S"] \o ret["A"] \o ret["B"] \o ret["C"] \o ret["D"] \o ret["F"]

\* how many of the rank positions 0 .. n-1 have 100 * i / n below the limit
PositionsBelow(limit, n) ==
    Cardinality({i \in 0..(n - 1) : 100 * i < limit * n})

\* C18: groupMovesByTier orders the standings by btlScore, highest first,
\* and puts the one at rank position i of n (from 0) into S if 100 i / n <
\* 10, A if < 25, B if < 50, C if < 75, D if < 90, and F otherwise.
C18_PercentileBuckets ==
    op = "groupMovesByTier" =>
        LET n == Len(args)
        IN /\ Len(RankedList) = n
           /\ \A i \in 1..(n - 1) :
                 ~FracLess(RankedList[i].btlScore, RankedList[i + 1].btlScore)
           /\ Len(ret["S"]) = PositionsBelow(10, n)
           /\ Len(ret["S"]) + Len(ret["A"]) = PositionsBelow(25, n)
           /\ Len(ret["S"]) + Len(ret["A"]) + Len(ret["B"])
                = PositionsBelow(50, n)
           /\ Len(ret["S"]) + Len(ret["A"]) + Len(ret["B"]) + Len(ret["C"])
                = PositionsBelow(75, n)
           /\ n - Len(ret["F"]) = PositionsBelow(90, n)

\* ten standings given out of score order: every tier is filled, F by the
\* one at rank position 9
C18_Witness ==
    /\ op = "groupMovesByTier"
    /\ Len(args) = 10
    /\ args # standings
    /\ Len(ret["S"]) = 1
    /\ Len(ret["A"]) = 2
    /\ Len(ret["C"]) = 3
    /\ Len(ret["F"]) = 1
    /\ ret["S"][1].btlScore # ret["F"][1].btlScore

\* C19: groupMovesByTier never puts two standings with the same btlScore
\* into two different tiers.
C19_TieGroupsTogether ==
    op = "groupMovesByTier" =>
        \A p \in TierSlots : \A q \in TierSlots :
            FracEq(ret[p[1]][p[2]].btlScore, ret[q[1]][q[2]].btlScore)
                => p[1] = q[1]

\* the array with its elements in the opposite order
Reversed(list) == [i \in 1..Len(list) |-> list[Len(list) + 1 - i]]

\* the tier in which a tiers object holds the move with the id
TierOfId(tiers, id) ==
    CHOOSE t \in TierSet : \E k \in DOMAIN tiers[t] : tiers[t][k].id = id

\* C20: groupMovesByTier gives every move the tier it gives it when the
\* same standings are passed in another order (here: reversed).
C20_OrderIndependent ==
    op = "groupMovesByTier" =>
        \A i \in DOMAIN args :
            TierOfId(groupMovesByTier(Reversed(args)), args[i].id)
                = TierOfId(ret, args[i].id)

\* the rank position (from 0) of the first standing of the sorted array
\* that has the score
FirstRankOf(sorted, score) ==
    (CHOOSE i \in DOMAIN sorted :
        /\ FracEq(sorted[i].btlScore, score)
        /\ \A j \in 1..(i - 1) : ~FracEq(sorted[j].btlScore, score)) - 1

\* C21: groupGlobalRankingsByTier puts the standing at rank position i of n
\* (score descending) into the percentile bucket of 100 i / n (S below 10,
\* A below 25, B below 50, C below 75, D below 90, F otherwise), a group of
\* equal scores going as a whole into the bucket of its first position.
C21_PagePercentileTiers ==
    op = "groupGlobalRankingsByTier" =>
        LET sorted == SortRankings(args)
        IN \A p \in TierSlots :
              p[1] = PercentileTier(
                         FirstRankOf(sorted, ret[p[1]][p[2]].btlScore),
                         Len(sorted))

\* how many choices of the last call are copies of the choice
Copies(c) == Cardinality({n \in DOMAIN CallChoices : CallChoices[n] = c})

\* the choices of the last call with only the first copy of the choice kept
RECURSIVE KeepFirst(_, _, _)
KeepFirst(choices, c, seen) ==
    IF choices = <<>> THEN <<>>
    ELSE IF Head(choices) = c
         THEN (IF seen THEN <<>> ELSE <<c>>) \o KeepFirst(Tail(choices), c, TRUE)
         ELSE <<Head(choices)>> \o KeepFirst(Tail(choices), c, seen)

\* the half wins one copy of a choice is worth for its move1 and its move2
WorthFirst(c) ==
    IF c.userChoice = 1 THEN WinUnit ELSE IF c.userChoice = 2 THEN 0 ELSE 1

WorthSecond(c) ==
    IF c.userChoice = 2 THEN WinUnit ELSE IF c.userChoice = 1 THEN 0 ELSE 1

\* C22: a choice between two known moves that is k times in the log is
\* counted k times: against the log with one copy of it, the totals of both
\* moves are k - 1 higher, the wins of the winner are k - 1 higher (half of
\* that for both on a tie), and the tallies of every other move are the same.
C22_NoDeduplication ==
    pc = "done" =>
        \A n \in DOMAIN CallChoices :
            LET c == CallChoices[n]
                k == Copies(c)
                once == createMoveDataMap(Moves, KeepFirst(CallChoices, c, FALSE))
            IN BothKnown(c) =>
                  /\ TotalOf(moveData, c.move1) = TotalOf(once, c.move1) + (k - 1)
                  /\ TotalOf(moveData, c.move2) = TotalOf(once, c.move2) + (k - 1)
                  /\ WinsOf(moveData, c.move1)
                       = WinsOf(once, c.move1) + (k - 1) * WorthFirst(c)
                  /\ WinsOf(moveData, c.move2)
                       = WinsOf(once, c.move2) + (k - 1) * WorthSecond(c)
                  /\ \A id \in KnownIds \ {c.move1, c.move2} :
                        /\ TotalOf(moveData, id) = TotalOf(once, id)
                        /\ WinsOf(moveData, id) = WinsOf(once, id)

\* the log holds the same win of m1 over m2 twice, around another choice
C22_Witness ==
    /\ pc = "done"
    /\ Len(CallChoices) = 3
    /\ CallChoices[1] = CallChoices[3]
    /\ CallChoices[2] # CallChoices[1]
    /\ BothKnown(CallChoices[1])
    /\ CallChoices[1].userChoice = 1
    /\ TotalOf(moveData, CallChoices[1].move1) >= 2
    /\ WinsOf(moveData, CallChoices[1].move1) >= 2 * WinUnit

\* C23: the calculator's methods leave their arguments and the instance as
\* they were: after groupMovesByTier(standings) the caller's standings array
\* has the elements it had at the call in the same order, and the fields of
\* the BTLCalculator instance never change.
C23_ArgumentsUnchanged ==
    /\ calc = [iterations |-> 50, convergenceThreshold |-> Frac(1, 1000000),
               minComparisons |-> 1]
    /\ op = "groupMovesByTier" => standings = args

\* the choices a list holds
Elements(choices) == {choices[k] : k \in DOMAIN choices}

\* C24: mergeChoices(localChoices, firebaseChoices) returns a list that
\* holds every choice of the local list and every choice of the Firebase
\* list.
C24_MergeLosesNothing ==
    op = "mergeChoices" =>
        \A c \in Elements(args.localChoices) \cup Elements(args.firebaseChoices) :
            c \in Elements(ret)

\* winRate * (0.5 + 0.5 * confidence) of standing a is above that of
\* standing b, both with userTotal > 0
SeedAbove(a, b) ==
    a.userWins * (ConfScale + a.confidence) * b.userTotal
      > b.userWins * (ConfScale + b.confidence) * a.userTotal

\* C25: of two returned moves with total > 0, the one with the higher
\* winRate * (0.5 + 0.5 * confidence) has the strictly higher btlScore.
C25_SeedOrderPreserved ==
    pc = "done" =>
        \A j \in DOMAIN results : \A k \in DOMAIN results :
            (/\ results[j].userTotal > 0
             /\ results[k].userTotal > 0
             /\ SeedAbove(results[j], results[k]))
                => FracLess(results[k].btlScore, results[j].btlScore)

RECURSIVE SumOver(_, _)
SumOver(data, field) ==
    IF data = <<>> THEN 0
    ELSE Head(data)[field] + SumOver(Tail(data), field)

\* the number of choices of the last call whose two ids are both known moves
CountedChoices == Len(SelectSeq(CallChoices, BothKnown))

\* C26: after createMoveDataMap every entry has 0 <= wins <= total, the
\* totals add up to twice the number of counted choices and the wins to the
\* number of counted choices, a choice being counted iff both of its ids are
\* in the moves array.
C26_TallyConservation ==
    pc = "done" =>
        /\ \A k \in DOMAIN moveData :
              /\ 0 <= moveData[k].wins
              /\ moveData[k].wins <= WinUnit * moveData[k].total
        /\ SumOver(moveData, "total") = 2 * CountedChoices
        /\ SumOver(moveData, "wins") = WinUnit * CountedChoices

\* a log of a tie, a win and a choice with an unknown id
C26_Witness ==
    /\ pc = "done"
    /\ Len(CallChoices) = 3
    /\ CountedChoices = 2
    /\ \E n \in DOMAIN CallChoices :
          BothKnown(CallChoices[n]) /\ CallChoices[n].userChoice = 0
    /\ \E n \in DOMAIN CallChoices :
          BothKnown(CallChoices[n]) /\ CallChoices[n].userChoice # 0
    /\ SumOver(moveData, "total") = 4

\* C27: the btlPrediction stored by recordChoice is calculateBTLPrediction
\* for the win/total tallies of the two displayed moves over the choices of
\* the displayed type recorded before: after a recorded win of A over B, a
\* comparison of A with B is stored with predictedWinner = A.
C27_StoredPrediction ==
    op = "recordChoice" =>
        ret.btlPrediction
          = calculateBTLPrediction(
                args.move1, args.move2,
                createMoveDataMap(MovesOfType(args.moveType),
                                  InCategory(args.userChoices, args.moveType)))

C29_OneChoicePerComparison == shownPushes <= 1

\* no recordChoice call of any page is suspended
NoCallPending == \A n \in DOMAIN calls : calls[n].pc \in {"idle", "end"}

RECURSIVE ChoicesOfAll(_)
ChoicesOfAll(users) ==
    IF users = {} THEN <<>>
    ELSE LET u == CHOOSE u \in users : TRUE
         IN fbChoices[u] \o ChoicesOfAll(users \ {u})

\* C30: when every user has recorded choices of a move type and every
\* updateGlobalRankings has completed, the ranking stored under
\* global_rankings/<moveType> has, for each of its moves, the userTotal and
\* userWins over the choices of all users.
C30_CrowdSourcedRankings ==
    \A type \in MoveTypes :
        (/\ NoCallPending
         /\ \A u \in Users : InCategory(fbChoices[u], type) # <<>>)
            => LET all == createMoveDataMap(MovesOfType(type),
                              InCategory(ChoicesOfAll(Users), type))
               IN /\ fbRankings[type] # <<>>
                  /\ \A k \in DOMAIN fbRankings[type] :
                        /\ fbRankings[type][k].userTotal
                             = TotalOf(all, fbRankings[type][k].id)
                        /\ fbRankings[type][k].userWins
                             = WinsOf(all, fbRankings[type][k].id)

=============================================================================
